---------------------------- MODULE Spec2Model ----------------------------
(***************************************************************************)
(* Buddy-Terminal (src/BuddyTerminal.py): the in-memory task list of       *)
(* TaskServer, the aiohttp handlers that replace and stream it, and the    *)
(* Textual key handlers of TaskBuddyApp that edit it.  Everything runs on  *)
(* one asyncio event loop: a handler runs without interruption up to its   *)
(* next await, and an action below is one such run.                        *)
(***************************************************************************)
EXTENDS Integers, Sequences, FiniteSets, TLC

(***************************************************************************)
(* Bounds of the model.                                                    *)
(***************************************************************************)
MaxSubs == 2
MaxOps == 2
MaxDay == 2
MaxTaskId == 3
MaxLen == 3

MinutesPerDay == 24 * 60

Subs == 1..MaxSubs

(***************************************************************************)
(* Time.  An instant is a number of minutes since day 0, 00:00 UTC.  The   *)
(* wall clock is sampled at a few points of each day.                      *)
(***************************************************************************)
DayOf(t) == t \div MinutesPerDay
Midnight(t) == DayOf(t) * MinutesPerDay
StartOfClock == MinutesPerDay + 600
ClockPoints == {StartOfClock} \cup
               { d * MinutesPerDay + m : d \in 2..MaxDay, m \in {0, 600} }
None == -1

(***************************************************************************)
(* A dueTime string.  fmt is the shape of the text: "none" (absent or      *)
(* empty), "bad" (not ISO), "Z" (UTC with a Z suffix), "off" (with a       *)
(* numeric offset), "naive" (no zone).  day/tod/us are the calendar day,   *)
(* the minute of the day and the sub-minute part as written in the text,   *)
(* off the offset in minutes.                                              *)
(***************************************************************************)
NoDue == [fmt |-> "none", day |-> 0, tod |-> 0, us |-> 0, off |-> 0]
BadDue == [fmt |-> "bad", day |-> 0, tod |-> 0, us |-> 0, off |-> 0]
DueZ(d, m, u) == [fmt |-> "Z", day |-> d, tod |-> m, us |-> u, off |-> 0]
DueOff(d, m, u, o) == [fmt |-> "off", day |-> d, tod |-> m, us |-> u, off |-> o]
DueNaive(d, m, u) == [fmt |-> "naive", day |-> d, tod |-> m, us |-> u, off |-> 0]

\* due_str.replace('Z', '+00:00'); datetime.fromisoformat(due_str);
\* a naive result gets tzinfo=timezone.utc.  The datetime keeps the fields
\* and the offset of the text.
Parses(s) == s.fmt \in {"Z", "off", "naive"}
ParseDue(s) == [day |-> s.day, tod |-> s.tod, us |-> s.us,
                off |-> IF s.fmt = "off" THEN s.off ELSE 0]

\* datetime.isoformat() of an aware datetime: always the offset form.
IsoFormat(dt) == [fmt |-> "off", day |-> dt.day, tod |-> dt.tod,
                  us |-> dt.us, off |-> dt.off]

\* Minute arithmetic that wraps inside the day and leaves the date alone.
AddMinutesNoCarry(dt, delta) ==
    [dt EXCEPT !.tod = (dt.tod + delta) % MinutesPerDay]

\* due_time + timedelta(minutes=minutes_delta): the offset is kept.
AddMinutes(dt, delta) ==
    LET total == dt.day * MinutesPerDay + dt.tod + delta
    IN  [dt EXCEPT !.day = total \div MinutesPerDay,
                   !.tod = total % MinutesPerDay]

(***************************************************************************)
(* Tasks and the store.  current_tasks is whatever JSON value the last     *)
(* POST carried: a list of task records, or something that is no list.     *)
(***************************************************************************)
Task(i, n, d, c, a, p) ==
    [id |-> i, name |-> n, dueTime |-> d, checked |-> c,
     alarmTriggered |-> a, isPreset |-> p]

TaskList(s) == [list |-> TRUE, items |-> s]
NotAList == [list |-> FALSE, items |-> <<>>]

Ids(store) == { store.items[k].id : k \in DOMAIN store.items }
IndexOfId(items, i) ==
    IF \E k \in DOMAIN items : items[k].id = i
    THEN CHOOSE k \in DOMAIN items :
            items[k].id = i /\ \A j \in 1..(k - 1) : items[j].id # i
    ELSE 0

SeqToSet(s) == { s[k] : k \in DOMAIN s }

(***************************************************************************)
(* Texts typed into a dialog: l leading blanks, the visible part s, r      *)
(* trailing blanks.                                                        *)
(***************************************************************************)
Txt(l, s, r) == [l |-> l, s |-> s, r |-> r]
Strip(x) == Txt(0, x.s, 0)
IsEmptyText(x) == x.l = 0 /\ x.s = "" /\ x.r = 0

\* A time text split at ':' ; a field that int() rejects is NotInt.
NotInt == 0 - 1000
\* The parse without the range check of the datetime constructor.
TimeParsesNoRange(f) ==
    /\ Len(f) = 2
    /\ f[1] # NotInt /\ f[2] # NotInt

\* hours, minutes = map(int, task_time.split(':')); datetime(..., hours,
\* minutes, ...): ValueError unless there are exactly two integer fields
\* with 0 <= hours <= 23 and 0 <= minutes <= 59.
TimeParses(f) ==
    /\ Len(f) = 2
    /\ f[1] # NotInt /\ f[2] # NotInt
    /\ f[1] \in 0..23 /\ f[2] \in 0..59

(***************************************************************************)
(* The daily rollover (TaskServer.should_update_dates and                  *)
(* TaskServer.update_task_dates_to_today).                                 *)
(***************************************************************************)
\* The gate comparing with the instant of the call instead of its midnight:
\* self.last_date_check < now.
GateOpenSinceLast(last, n) == last = None \/ last < n

\* self.last_date_check is None or self.last_date_check < today
GateOpen(last, n) == last = None \/ last < Midnight(n)

\* should_update_dates() called with last_date_check = last when the clock
\* reads n: what it returns and what it leaves in last_date_check.
ShouldUpdateDates(last, n) ==
    [ret |-> GateOpen(last, n), last |-> IF GateOpen(last, n) THEN n ELSE last]

\* The record of one call.
GateEntry(last, n) ==
    [before |-> last, at |-> n, ret |-> ShouldUpdateDates(last, n).ret,
     after |-> ShouldUpdateDates(last, n).last]

\* The loop body without lines 73-74: the flags are kept.
RollTaskKeepFlags(t, today) ==
    IF ~Parses(t.dueTime) THEN t
    ELSE LET due == ParseDue(t.dueTime)
         IN  IF due.day < today
             THEN [t EXCEPT !.dueTime = IsoFormat([day |-> today, tod |-> due.tod,
                                                   us |-> due.us, off |-> 0])]
             ELSE t

\* The loop body moving a stale date one day on instead of to today:
\* task_due + timedelta(days=1).
RollTaskNextDay(t, today) ==
    IF ~Parses(t.dueTime) THEN t
    ELSE LET due == ParseDue(t.dueTime)
         IN  IF due.day < today
             THEN [t EXCEPT !.dueTime = IsoFormat([day |-> due.day + 1,
                                                   tod |-> due.tod,
                                                   us |-> due.us, off |-> 0]),
                            !.alarmTriggered = FALSE,
                            !.checked = FALSE]
             ELSE t

\* One pass of the loop body over one task, today being the UTC day of the
\* clock read at line 50.
RollTask(t, today) ==
    IF ~Parses(t.dueTime) THEN t
    ELSE LET due == ParseDue(t.dueTime)
         IN  IF due.day < today
             THEN [t EXCEPT !.dueTime = IsoFormat([day |-> today, tod |-> due.tod,
                                                   us |-> due.us, off |-> 0]),
                            !.alarmTriggered = FALSE,
                            !.checked = FALSE]
             ELSE t

\* The loop with break in place of continue at lines 56 and 81: the tasks
\* after the first one without a parseable dueTime are not visited.
RollAllAbort(items, today) ==
    [k \in DOMAIN items |->
        IF \E j \in 1..k : ~Parses(items[j].dueTime)
        THEN items[k] ELSE RollTask(items[k], today)]

\* for task in tasks: the loop body applied to every task, in place.
RollAll(items, today) == [k \in DOMAIN items |-> RollTask(items[k], today)]

\* update_task_dates_to_today(tasks): n2 is the clock read by the gate it
\* calls, n3 the clock read at line 50.  Returns the tasks and the new
\* last_date_check.
UpdateTaskDatesToToday(store, last, n2, n3) ==
    IF ~store.list THEN [tasks |-> store, last |-> last]
    ELSE IF ~GateOpen(last, n2) THEN [tasks |-> store, last |-> last]
    ELSE [tasks |-> TaskList(RollAll(store.items, DayOf(n3))), last |-> n2]

(***************************************************************************)
(* Payloads a remote client posts.                                         *)
(***************************************************************************)
TaskA == Task(1, Txt(0, "a", 0), DueZ(0, 540, 0), TRUE, TRUE, TRUE)
TaskB == Task(2, Txt(0, "b", 0), NoDue, FALSE, TRUE, TRUE)
TaskC == Task(MaxTaskId, Txt(0, "c", 0), DueOff(1, 0, 30, 0), FALSE, FALSE, TRUE)
Payloads == { TaskList(<<TaskA, TaskB, TaskC>>), TaskList(<<TaskC>>), NotAList }

\* Task lists handed to update_task_dates_to_today: due dates written with
\* a Z, without a zone, east and west of UTC, not a date, and absent.
TaskBad == Task(MaxTaskId + 1, Txt(0, "d", 0), BadDue, TRUE, TRUE, TRUE)
TaskNaive == Task(MaxTaskId + 2, Txt(0, "e", 0), DueNaive(1, 1439, 7), TRUE, FALSE, FALSE)
TaskEast == Task(MaxTaskId + 3, Txt(0, "f", 0), DueOff(2, 60, 0, 300), TRUE, TRUE, TRUE)
TaskWest == Task(MaxTaskId + 4, Txt(0, "g", 0), DueOff(1, 1380, 0, 0 - 300), FALSE, TRUE, TRUE)
PassTasks == {TaskA, TaskB, TaskBad, TaskNaive, TaskEast, TaskWest}
PassInputs ==
    { TaskList(q) : q \in UNION { [1..n -> PassTasks] : n \in 0..MaxLen } }
    \cup {NotAList}
LastChecks == {None, StartOfClock - MinutesPerDay, StartOfClock}

NameInputs == { Txt(0, "", 0), Txt(1, "", 0), Txt(1, "x", 1) }
TimeInputs == { <<14, 30>>, <<25, 0>>, <<14>>, <<NotInt, 30>> }

(***************************************************************************)
(* The table of the view (TaskBuddyApp._refresh_table): one row per task,  *)
(* keyed by the task id, added in the order of sorted(tasks, key=dueTime). *)
(* DataTable.add_row raises DuplicateKey at the second row with a key the  *)
(* table already holds, and the rows after it are never added.             *)
(***************************************************************************)
\* The order of the dueTime strings: '' first, then the ISO texts by date
\* and time, a text that is no date last.
SortKey(d) ==
    CASE d.fmt = "none" -> 0 - 1
      [] d.fmt = "bad" -> (MaxDay + 2) * MinutesPerDay * 400
      [] OTHER -> ((d.day * MinutesPerDay + d.tod) * 100 + d.us) * 4
                  + (CASE d.fmt = "naive" -> 0 [] d.fmt = "off" -> 1 [] OTHER -> 2)

\* sorted() is stable: k comes before j.
Before(items, k, j) ==
    \/ SortKey(items[k].dueTime) < SortKey(items[j].dueTime)
    \/ SortKey(items[k].dueTime) = SortKey(items[j].dueTime) /\ k < j

\* Row j repeats the key of an earlier row.
RepeatsKey(items, j) ==
    \E k \in DOMAIN items : Before(items, k, j) /\ items[k].id = items[j].id

RefreshRaises(store) ==
    store.list /\ \E j \in DOMAIN store.items : RepeatsKey(store.items, j)

\* The row keys of the table after _refresh_table(store).
RefreshKeys(store) ==
    IF ~store.list THEN {}
    ELSE LET items == store.items
         IN  { items[k].id : k \in { k \in DOMAIN items :
                   \A j \in DOMAIN items :
                       RepeatsKey(items, j) => Before(items, k, j) /\ k # j } }

(***************************************************************************)
(* The state of the program.                                               *)
(***************************************************************************)
VARIABLES
    now,               \* the wall clock (UTC), an element of ClockPoints
    msClock,           \* int(datetime.now().timestamp() * 1000) of the next add
    alive,             \* FALSE once an unhandled exception has ended the app
    current_tasks,     \* TaskServer.current_tasks
    sse_clients,       \* TaskServer.sse_clients, a list of channels
    last_date_check,   \* TaskServer.last_date_check, None or an instant
    chan,              \* each channel's transport: new, open, stalled, closed
    sess,              \* each handle_sse coroutine: new, sleep, ended
    recv,              \* the snapshot messages written to each channel, in order
    pubs,              \* every broadcast_tasks coroutine created so far
    http,              \* the POST /tasks requests handled so far
    table,             \* the row keys of the DataTable
    pendingRefresh,    \* the _refresh_table calls queued by call_later
    dialog,            \* the modal screen a worker is waiting on
    ops,               \* the inputs handled so far
    gateLog,           \* the calls of should_update_dates so far
    got,               \* the last response of GET /tasks
    lastInput          \* the last input handled

vars == <<now, msClock, alive, current_tasks, sse_clients, last_date_check,
          chan, sess, recv, pubs, http, table, pendingRefresh, dialog, ops,
          gateLog, got, lastInput>>

NoDialog == [kind |-> "none", id |-> 0, idx |-> 0, orphan |-> FALSE]

\* An input of the user or of the remote client: the operation, the id of
\* the row it is about, the text and the time typed (for a rollover the
\* two clock reads), the minutes of a shift, the body of a POST.
NoText == Txt(0, "", 0)
Input(op, i, x, f, delta) ==
    [op |-> op, id |-> i, text |-> x, time |-> f, delta |-> delta,
     body |-> TaskList(<<>>)]
PostInput(body) ==
    [op |-> "post", id |-> 0, text |-> NoText, time |-> <<>>, delta |-> 0,
     body |-> body]
NoInput == Input("none", 0, NoText, <<>>, 0)
NothingGot == [seen |-> FALSE, data |-> TaskList(<<>>)]

Init ==
    /\ now = StartOfClock
    /\ msClock = MaxTaskId
    /\ alive = TRUE
    /\ current_tasks = TaskList(<<>>)
    /\ sse_clients = <<>>
    /\ last_date_check = None
    /\ chan = [s \in Subs |-> "new"]
    /\ sess = [s \in Subs |-> "new"]
    /\ recv = [s \in Subs |-> <<>>]
    /\ pubs = <<>>
    /\ http = <<>>
    /\ table = {}
    /\ pendingRefresh = <<>>
    /\ dialog = NoDialog
    /\ ops = 0
    /\ gateLog = <<>>
    /\ got = NothingGot
    /\ lastInput = NoInput

Truthy(store) == ~store.list \/ Len(store.items) > 0
Registered(s) == s \in SeqToSet(sse_clients)
Later(n) == { m \in ClockPoints : m >= n }

(***************************************************************************)
(* TaskServer.broadcast_tasks.  A coroutine is "ready" (created by         *)
(* asyncio.create_task, not yet run), in its "loop" (suspended in          *)
(* await client.write) or "done".  idx is the position of the list         *)
(* iterator, cur the channel whose write it awaits.  op, storeAt and lenAt *)
(* record what triggered it: the operation, the store right after it and   *)
(* the number of messages each registered channel had then (None for a     *)
(* channel not registered).                                                *)
(***************************************************************************)
NewPub(kind, op, req, store, reg, rc) ==
    [kind |-> kind, op |-> op, req |-> req, pc |-> "ready",
     message |-> TaskList(<<>>), idx |-> 0, cur |-> 0, disconnected |-> <<>>,
     storeAt |-> store,
     lenAt |-> [s \in Subs |-> IF s \in SeqToSet(reg) THEN Len(rc[s]) ELSE None]]

\* self.sse_clients.remove(client): the first occurrence.
RECURSIVE RemoveClient(_, _)
RemoveClient(reg, c) ==
    IF reg = <<>> THEN <<>>
    ELSE IF Head(reg) = c THEN Tail(reg)
    ELSE <<Head(reg)>> \o RemoveClient(Tail(reg), c)

\* for client in disconnected: if client in self.sse_clients: remove it
RECURSIVE RemoveDisconnected(_, _)
RemoveDisconnected(reg, disc) ==
    IF disc = <<>> THEN reg
    ELSE RemoveDisconnected(RemoveClient(reg, Head(disc)), Tail(disc))

\* A serialization that stops after the first task of a longer list.
SerializeTorn(store) ==
    IF store.list /\ Len(store.items) > 1
    THEN TaskList(SubSeq(store.items, 1, 1)) ELSE store

\* message = f"data: {json.dumps(self.current_tasks)}\n\n"
Serialize(store) == store

\* Lines 152-156: the early return on an empty registry, else the message.
BeginPub(pb, store, reg) ==
    IF reg = <<>> THEN [pb EXCEPT !.pc = "done"]
    ELSE [pb EXCEPT !.pc = "loop", !.message = Serialize(store), !.idx = 1]

\* The loop "for client in self.sse_clients" from the iterator's position
\* idx up to its next suspension: the iterator reads the live list.  A
\* write to a channel whose connection is lost raises at once and the loop
\* goes on; any other write is awaited.  Past the end of the list the loop
\* is over and the disconnected channels are removed.
RECURSIVE Iterate(_, _, _, _, _)
Iterate(pb, pid, reg, ch, rc) ==
    IF pb.pc # "loop" THEN [pub |-> pb, reg |-> reg, recv |-> rc]
    ELSE IF pb.idx <= Len(reg)
    THEN LET c == reg[pb.idx]
         IN  IF ch[c] = "closed"
             THEN Iterate([pb EXCEPT !.idx = @ + 1, !.cur = 0,
                                     !.disconnected = Append(@, c)],
                          pid, reg, ch, rc)
             ELSE [pub |-> [pb EXCEPT !.idx = @ + 1, !.cur = c],
                   reg |-> reg,
                   recv |-> [rc EXCEPT ![c] =
                                Append(@, [pub |-> pid, data |-> pb.message])]]
    ELSE [pub |-> [pb EXCEPT !.pc = "done", !.idx = 0, !.cur = 0],
          reg |-> RemoveDisconnected(reg, pb.disconnected),
          recv |-> rc]

(***************************************************************************)
(* The environment: the clock and the peers of the channels.               *)
(***************************************************************************)
Tick ==
    /\ alive
    /\ \E t \in ClockPoints : t > now /\ now' = t
    /\ UNCHANGED <<gateLog, got, lastInput>>
    /\ UNCHANGED <<msClock, alive, current_tasks, sse_clients, last_date_check,
                   chan, sess, recv, pubs, http, table, pendingRefresh, dialog, ops>>

\* The peer stops reading: the transport pauses and a write does not drain.
PeerStall(s) ==
    /\ alive /\ chan[s] = "open"
    /\ chan' = [chan EXCEPT ![s] = "stalled"]
    /\ UNCHANGED <<gateLog, got, lastInput>>
    /\ UNCHANGED <<now, msClock, alive, current_tasks, sse_clients, last_date_check,
                   sess, recv, pubs, http, table, pendingRefresh, dialog, ops>>

PeerResume(s) ==
    /\ alive /\ chan[s] = "stalled"
    /\ chan' = [chan EXCEPT ![s] = "open"]
    /\ UNCHANGED <<gateLog, got, lastInput>>
    /\ UNCHANGED <<now, msClock, alive, current_tasks, sse_clients, last_date_check,
                   sess, recv, pubs, http, table, pendingRefresh, dialog, ops>>

\* The peer goes away: every later write to the channel raises.
PeerDisconnect(s) ==
    /\ alive /\ chan[s] \in {"open", "stalled"}
    /\ chan' = [chan EXCEPT ![s] = "closed"]
    /\ UNCHANGED <<gateLog, got, lastInput>>
    /\ UNCHANGED <<now, msClock, alive, current_tasks, sse_clients, last_date_check,
                   sess, recv, pubs, http, table, pendingRefresh, dialog, ops>>

(***************************************************************************)
(* TaskServer.handle_sse.                                                  *)
(***************************************************************************)
\* The finally clause with its membership test turned around.
UnsubscribeAbsent(reg, c) ==
    IF c \in SeqToSet(reg) THEN reg ELSE Append(reg, c)

\* A handler without the finally clause: the channel stays where it is.
UnsubscribeNever(reg, c) == reg

\* The finally clause removing the newest channel: self.sse_clients.pop().
UnsubscribeLast(reg, c) ==
    IF c \in SeqToSet(reg) THEN SubSeq(reg, 1, Len(reg) - 1) ELSE reg

\* The finally clause: if response in self.sse_clients: remove it.
Unsubscribe(reg, c) ==
    IF c \in SeqToSet(reg) THEN RemoveClient(reg, c) ELSE reg

\* Lines 129-131.  n1 is the clock read by should_update_dates() in the
\* condition, n2 and n3 the reads inside update_task_dates_to_today.
RolloverOnConnect(store, last, n1, n2, n3) ==
    IF Truthy(store) /\ GateOpen(last, n1)
    THEN UpdateTaskDatesToToday(store, n1, n2, n3)
    ELSE [tasks |-> store, last |-> last]

\* The calls of should_update_dates() one connect makes: the one of line
\* 129 when the store is truthy, and the one of line 47 when that returned
\* True and the store is a list.
GateCalls(store, last, n1, n2) ==
    IF ~Truthy(store) THEN <<>>
    ELSE IF GateOpen(last, n1) /\ store.list
         THEN <<GateEntry(last, n1), GateEntry(ShouldUpdateDates(last, n1).last, n2)>>
         ELSE <<GateEntry(last, n1)>>

\* A request for /tasks/stream, from response.prepare to the first await
\* after the initial snapshot.  Channels are handed out in order.  The
\* clock reads now at the gate of line 129; n2 and n3 are what it reads at
\* the gate of line 47 and at line 50, and ok is whether the peer is still
\* there when the snapshot is written.
SseConnect(s, n2, n3, ok) ==
    /\ alive /\ sess[s] = "new"
    /\ \A r \in Subs : r < s => sess[r] # "new"
    /\ n2 \in Later(now) /\ n3 \in Later(n2)
    /\ LET r == RolloverOnConnect(current_tasks, last_date_check, now, n2, n3)
           gate1 == Truthy(current_tasks) /\ GateOpen(last_date_check, now)
           gate2 == gate1 /\ current_tasks.list /\ GateOpen(now, n2)
       IN  /\ (~(gate1 /\ current_tasks.list) => n2 = now)
           /\ (~gate2 => n3 = n2)
           /\ now' = n3
           /\ current_tasks' = r.tasks
           /\ last_date_check' = r.last
           /\ IF ok
              THEN /\ sse_clients' = Append(sse_clients, s)
                   /\ chan' = [chan EXCEPT ![s] = "open"]
                   /\ sess' = [sess EXCEPT ![s] = "sleep"]
                   /\ recv' = [recv EXCEPT ![s] =
                                  <<[pub |-> 0, data |-> Serialize(r.tasks)]>>]
              ELSE /\ sse_clients' = Unsubscribe(Append(sse_clients, s), s)
                   /\ chan' = [chan EXCEPT ![s] = "closed"]
                   /\ sess' = [sess EXCEPT ![s] = "ended"]
                   /\ recv' = recv
    /\ gateLog' = gateLog \o GateCalls(current_tasks, last_date_check, now, n2)
    /\ UNCHANGED <<got, lastInput>>
    /\ UNCHANGED <<msClock, alive, pubs, http, table, pendingRefresh, dialog, ops>>

\* The keep-alive write raises (or the handler is cancelled): the loop
\* breaks and the finally clause runs.
KeepAliveFail(s) ==
    /\ alive /\ sess[s] = "sleep" /\ chan[s] = "closed"
    /\ sse_clients' = Unsubscribe(sse_clients, s)
    /\ sess' = [sess EXCEPT ![s] = "ended"]
    /\ UNCHANGED <<gateLog, got, lastInput>>
    /\ UNCHANGED <<now, msClock, alive, current_tasks, last_date_check, chan,
                   recv, pubs, http, table, pendingRefresh, dialog, ops>>

(***************************************************************************)
(* The steps of a broadcast_tasks coroutine.                               *)
(***************************************************************************)
\* The response of POST /tasks once its broadcast has returned.
Respond(h, pb) ==
    IF pb.kind = "post" /\ pb.pc = "done"
    THEN [h EXCEPT ![pb.req].status = 200]
    ELSE h

\* A coroutine made by asyncio.create_task runs for the first time, in the
\* order of creation.
PublishStart(p) ==
    /\ alive /\ pubs[p].pc = "ready"
    /\ \A q \in 1..(p - 1) : pubs[q].pc # "ready"
    /\ LET r == Iterate(BeginPub(pubs[p], current_tasks, sse_clients), p,
                        sse_clients, chan, recv)
       IN  /\ pubs' = [pubs EXCEPT ![p] = r.pub]
           /\ sse_clients' = r.reg
           /\ recv' = r.recv
    /\ UNCHANGED <<gateLog, got, lastInput>>
    /\ UNCHANGED <<now, msClock, alive, current_tasks, last_date_check, chan,
                   sess, http, table, pendingRefresh, dialog, ops>>

\* The awaited write returns (raised: with the connection lost), and the
\* loop takes its next turn.
PublishStep(p) ==
    /\ alive /\ pubs[p].pc = "loop"
    /\ chan[pubs[p].cur] # "stalled"
    /\ \E raised \in (IF chan[pubs[p].cur] = "closed" THEN BOOLEAN ELSE {FALSE}) :
        LET pb == IF raised
                  THEN [pubs[p] EXCEPT !.disconnected = Append(@, pubs[p].cur)]
                  ELSE pubs[p]
            r == Iterate(pb, p, sse_clients, chan, recv)
        IN  /\ pubs' = [pubs EXCEPT ![p] = r.pub]
            /\ sse_clients' = r.reg
            /\ recv' = r.recv
            /\ http' = Respond(http, r.pub)
    /\ UNCHANGED <<gateLog, got, lastInput>>
    /\ UNCHANGED <<now, msClock, alive, current_tasks, last_date_check, chan,
                   sess, table, pendingRefresh, dialog, ops>>

(***************************************************************************)
(* TaskServer.handle_tasks.                                                *)
(***************************************************************************)
\* A queued _refresh_table(tasks) holds the list object it was given: it
\* shows the store while the store is still that object, and what the
\* object held when the store was rebound otherwise.
Freeze(pr, store) ==
    [k \in DOMAIN pr |-> IF pr[k].live THEN [live |-> FALSE, store |-> store]
                         ELSE pr[k]]

\* A replace that keeps the tasks of the store whose id the body lacks.
ReplaceMerge(store, body) ==
    IF store.list /\ body.list
    THEN TaskList(body.items \o
                  SelectSeq(store.items, LAMBDA t : t.id \notin Ids(body)))
    ELSE body

\* self.current_tasks = data
Replace(store, body) == body

\* GET /tasks: web.json_response(self.current_tasks).
GetTasks ==
    /\ alive
    /\ got' = [seen |-> TRUE, data |-> Serialize(current_tasks)]
    /\ UNCHANGED <<gateLog, lastInput>>
    /\ UNCHANGED <<now, msClock, alive, current_tasks, sse_clients, last_date_check,
                   chan, sess, recv, pubs, http, table, pendingRefresh, dialog, ops>>

\* POST /tasks with a body that is JSON: lines 171-177, up to the first
\* await of the broadcast.
PostTasks(body) ==
    /\ alive /\ ops < MaxOps
    /\ LET pid == Len(pubs) + 1
           store == Replace(current_tasks, body)
           pb == NewPub("post", "replace", Len(http) + 1, store, sse_clients, recv)
           r == Iterate(BeginPub(pb, store, sse_clients), pid, sse_clients, chan, recv)
       IN  /\ current_tasks' = store
           /\ pendingRefresh' = Append(Freeze(pendingRefresh, current_tasks),
                                       [live |-> TRUE, store |-> store])
           /\ pubs' = Append(pubs, r.pub)
           /\ sse_clients' = r.reg
           /\ recv' = r.recv
           /\ http' = Respond(Append(http, [json |-> TRUE, list |-> body.list,
                                            status |-> 0]), r.pub)
    /\ dialog' = IF dialog.kind = "edit" THEN [dialog EXCEPT !.orphan = TRUE]
                 ELSE dialog
    /\ ops' = ops + 1
    /\ lastInput' = PostInput(body)
    /\ UNCHANGED <<gateLog, got>>
    /\ UNCHANGED <<now, msClock, alive, last_date_check, chan, sess, table>>

\* POST /tasks with a body request.json() rejects: the except clause.
PostBadJson ==
    /\ alive /\ ops < MaxOps
    /\ http' = Append(http, [json |-> FALSE, list |-> FALSE, status |-> 500])
    /\ ops' = ops + 1
    /\ lastInput' = Input("badpost", 0, NoText, <<>>, 0)
    /\ UNCHANGED <<gateLog, got>>
    /\ UNCHANGED <<now, msClock, alive, current_tasks, sse_clients, last_date_check,
                   chan, sess, recv, pubs, table, pendingRefresh, dialog>>

\* TaskBuddyApp.update_tasks: the queued _refresh_table runs.
RefreshTable ==
    /\ alive /\ pendingRefresh # <<>>
    /\ LET h == Head(pendingRefresh)
           shown == IF h.live THEN current_tasks ELSE h.store
       IN  /\ table' = RefreshKeys(shown)
           /\ alive' = ~RefreshRaises(shown)
    /\ pendingRefresh' = Tail(pendingRefresh)
    /\ UNCHANGED <<gateLog, got, lastInput>>
    /\ UNCHANGED <<now, msClock, current_tasks, sse_clients, last_date_check, chan,
                   sess, recv, pubs, http, dialog, ops>>

(***************************************************************************)
(* The handlers of TaskBuddyApp.  A handler that changes a task calls      *)
(* _refresh_table and then asyncio.create_task(sync_tasks_to_webapp()).    *)
(* While a modal screen is up the table and the key bindings are out of    *)
(* reach.                                                                  *)
(***************************************************************************)
CanAct == alive /\ dialog.kind = "none" /\ ops < MaxOps

\* asyncio.create_task(self.sync_tasks_to_webapp())
CreateTask(ps, op, store) ==
    Append(ps, NewPub("task", op, 0, store, sse_clients, recv))

\* The toggle raising the alarm of a task it unchecks.
ToggleTaskRaiseAlarm(t) ==
    IF t.checked THEN [t EXCEPT !.checked = FALSE, !.alarmTriggered = TRUE]
    ELSE [t EXCEPT !.checked = TRUE, !.alarmTriggered = FALSE]

\* The toggle with line 764 outside its if: the alarm is always cleared.
ToggleTaskClearAlarm(t) ==
    [t EXCEPT !.checked = ~t.checked, !.alarmTriggered = FALSE]

\* task["checked"] = not task.get("checked", False); a task now checked
\* gets alarmTriggered = False.
ToggleTask(t) ==
    IF t.checked THEN [t EXCEPT !.checked = FALSE]
    ELSE [t EXCEPT !.checked = TRUE, !.alarmTriggered = FALSE]

\* on_data_table_row_selected / on_data_table_cell_selected on row i.  The
\* loop over a store that is no list, and a _refresh_table that raises,
\* leave the handler by an exception nothing catches.
Toggle(i) ==
    /\ CanAct /\ i \in table
    /\ IF ~current_tasks.list
       THEN /\ alive' = FALSE
            /\ UNCHANGED <<current_tasks, table, pubs>>
       ELSE LET k == IndexOfId(current_tasks.items, i)
                store == TaskList([current_tasks.items EXCEPT ![k] = ToggleTask(@)])
            IN  /\ k > 0
                /\ current_tasks' = store
                /\ table' = RefreshKeys(store)
                /\ alive' = ~RefreshRaises(store)
                /\ pubs' = IF RefreshRaises(store) THEN pubs
                           ELSE CreateTask(pubs, "toggle", store)
    /\ ops' = ops + 1
    /\ lastInput' = Input("toggle", i, NoText, <<>>, 0)
    /\ UNCHANGED <<gateLog, got>>
    /\ UNCHANGED <<now, msClock, sse_clients, last_date_check, chan, sess, recv,
                   http, pendingRefresh, dialog>>

\* get_selected_task(): the first task of the store whose id is the key of
\* the cursor row, None when there is none or the store is no list.
SelectedIndex(i) ==
    IF current_tasks.list THEN IndexOfId(current_tasks.items, i) ELSE 0

\* new_due_time = due_time + timedelta(minutes=minutes_delta)
ShiftTask(t, delta) ==
    [t EXCEPT !.dueTime = IsoFormat(AddMinutes(ParseDue(t.dueTime), delta)),
              !.isPreset = FALSE]

\* adjust_task_time(minutes_delta) on row i: the keys a and d.  An
\* exception of the parse or of _refresh_table is caught and printed.
AdjustTaskTime(i, delta) ==
    /\ CanAct /\ i \in table
    /\ LET k == SelectedIndex(i)
       IN  IF k = 0 \/ ~Parses(current_tasks.items[k].dueTime)
           THEN UNCHANGED <<current_tasks, table, pubs>>
           ELSE LET store == TaskList([current_tasks.items EXCEPT
                                          ![k] = ShiftTask(@, delta)])
                IN  /\ current_tasks' = store
                    /\ table' = RefreshKeys(store)
                    /\ pubs' = IF RefreshRaises(store) THEN pubs
                               ELSE CreateTask(pubs, "shift", store)
    /\ ops' = ops + 1
    /\ lastInput' = Input("shift", i, NoText, <<>>, delta)
    /\ UNCHANGED <<gateLog, got>>
    /\ UNCHANGED <<now, msClock, alive, sse_clients, last_date_check, chan, sess,
                   recv, http, pendingRefresh, dialog>>

\* _edit_task_worker up to push_screen_wait: the key u on row i.
EditOpen(i) ==
    /\ CanAct /\ i \in table /\ SelectedIndex(i) > 0
    /\ dialog' = [kind |-> "edit", id |-> i, idx |-> SelectedIndex(i),
                  orphan |-> FALSE]
    /\ UNCHANGED <<gateLog, got, lastInput>>
    /\ UNCHANGED <<now, msClock, alive, current_tasks, sse_clients, last_date_check,
                   chan, sess, recv, pubs, http, table, pendingRefresh, ops>>

\* task['name'] = result.strip(); task['isPreset'] = False
RenameTask(t, x) == [t EXCEPT !.name = Strip(x), !.isPreset = FALSE]

\* The edit dialog is submitted with text x.  The worker writes to the
\* task object it picked before the dialog; after a POST that object is no
\* longer in the store.
EditSubmit(x) ==
    /\ alive /\ dialog.kind = "edit" /\ ops < MaxOps
    /\ IF IsEmptyText(x) \/ IsEmptyText(Strip(x))
       THEN UNCHANGED <<alive, current_tasks, table, pubs>>
       ELSE LET store == IF dialog.orphan THEN current_tasks
                         ELSE TaskList([current_tasks.items EXCEPT
                                           ![dialog.idx] = RenameTask(@, x)])
            IN  /\ current_tasks' = store
                /\ table' = RefreshKeys(store)
                /\ alive' = ~RefreshRaises(store)
                /\ pubs' = IF RefreshRaises(store) THEN pubs
                           ELSE CreateTask(pubs, "rename", store)
    /\ dialog' = NoDialog
    /\ ops' = ops + 1
    /\ lastInput' = Input("rename", dialog.id, x, <<>>, 0)
    /\ UNCHANGED <<gateLog, got>>
    /\ UNCHANGED <<now, msClock, sse_clients, last_date_check, chan, sess, recv,
                   http, pendingRefresh>>

\* _add_task_worker up to push_screen_wait: the key n.
AddOpen ==
    /\ CanAct
    /\ dialog' = [NoDialog EXCEPT !.kind = "add"]
    /\ UNCHANGED <<gateLog, got, lastInput>>
    /\ UNCHANGED <<now, msClock, alive, current_tasks, sse_clients, last_date_check,
                   chan, sess, recv, pubs, http, table, pendingRefresh, ops>>

\* Lines 660-678: the task made from the name, the parsed time, the UTC
\* day of the clock and the id minted from the clock in milliseconds.
NewTask(x, f, n, ms) ==
    Task(ms, Strip(x), IsoFormat([day |-> DayOf(n), tod |-> f[1] * 60 + f[2],
                                  us |-> 0, off |-> 0]),
         FALSE, FALSE, FALSE)

\* self.server.current_tasks.append(new_task)
AppendTask(store, t) == TaskList(Append(store.items, t))

\* The add dialog is submitted with a name and a time, both non-empty.  A
\* ValueError of the parse, the AttributeError of append on a store that
\* is no list, and an exception of _refresh_table are caught and printed.
AddSubmit(x, f) ==
    /\ alive /\ dialog.kind = "add" /\ ops < MaxOps
    /\ ~IsEmptyText(Strip(x))
    /\ IF ~TimeParses(f)
       THEN UNCHANGED <<msClock, current_tasks, table, pubs>>
       ELSE /\ msClock' = msClock + 1
            /\ IF ~current_tasks.list
               THEN UNCHANGED <<current_tasks, table, pubs>>
               ELSE LET store == AppendTask(current_tasks, NewTask(x, f, now, msClock))
                    IN  /\ current_tasks' = store
                        /\ table' = RefreshKeys(store)
                        /\ pubs' = IF RefreshRaises(store) THEN pubs
                                   ELSE CreateTask(pubs, "add", store)
    /\ dialog' = NoDialog
    /\ ops' = ops + 1
    /\ lastInput' = Input("add", 0, x, f, 0)
    /\ UNCHANGED <<gateLog, got>>
    /\ UNCHANGED <<now, alive, sse_clients, last_date_check, chan, sess, recv,
                   http, pendingRefresh>>

\* _delete_task_worker up to push_screen_wait: the key x on row i.
DeleteOpen(i) ==
    /\ CanAct /\ i \in table /\ SelectedIndex(i) > 0
    /\ dialog' = [kind |-> "delete", id |-> i, idx |-> SelectedIndex(i),
                  orphan |-> FALSE]
    /\ UNCHANGED <<gateLog, got, lastInput>>
    /\ UNCHANGED <<now, msClock, alive, current_tasks, sse_clients, last_date_check,
                   chan, sess, recv, pubs, http, table, pendingRefresh, ops>>

\* [t for t in self.server.current_tasks if t.get('id') != task_id]
DeleteById(store, i) ==
    TaskList(SelectSeq(store.items, LAMBDA t : t.id # i))

\* The delete dialog is confirmed with y.  The comprehension over a store
\* that is no list, and a _refresh_table that raises, end the worker by an
\* exception nothing catches.
DeleteConfirm ==
    /\ alive /\ dialog.kind = "delete" /\ ops < MaxOps
    /\ IF ~current_tasks.list
       THEN /\ alive' = FALSE
            /\ UNCHANGED <<current_tasks, table, pubs, pendingRefresh>>
       ELSE LET store == DeleteById(current_tasks, dialog.id)
            IN  /\ current_tasks' = store
                /\ pendingRefresh' = Freeze(pendingRefresh, current_tasks)
                /\ table' = RefreshKeys(store)
                /\ alive' = ~RefreshRaises(store)
                /\ pubs' = IF RefreshRaises(store) THEN pubs
                           ELSE CreateTask(pubs, "delete", store)
    /\ dialog' = NoDialog
    /\ ops' = ops + 1
    /\ lastInput' = Input("delete", dialog.id, NoText, <<>>, 0)
    /\ UNCHANGED <<gateLog, got>>
    /\ UNCHANGED <<now, msClock, sse_clients, last_date_check, chan, sess, recv, http>>

\* Escape in the edit or add dialog, n or Escape in the delete dialog.
DialogCancel ==
    /\ alive /\ dialog.kind # "none"
    /\ dialog' = NoDialog
    /\ UNCHANGED <<gateLog, got, lastInput>>
    /\ UNCHANGED <<now, msClock, alive, current_tasks, sse_clients, last_date_check,
                   chan, sess, recv, pubs, http, table, pendingRefresh, ops>>

(***************************************************************************)
(* The specifications.  Spec is the hub: the remote client posts, the      *)
(* subscribers come and go, the user toggles and deletes, and the clock    *)
(* stands still.                                                           *)
(***************************************************************************)
SelectIds == {1, MaxTaskId}

Next ==
    \/ \E s \in Subs : \E ok \in BOOLEAN : SseConnect(s, now, now, ok)
    \/ \E s \in Subs : PeerDisconnect(s)
    \/ \E s \in Subs : KeepAliveFail(s)
    \/ \E p \in DOMAIN pubs : PublishStart(p)
    \/ \E p \in DOMAIN pubs : PublishStep(p)
    \/ \E body \in Payloads : PostTasks(body)
    \/ PostBadJson
    \/ RefreshTable
    \/ \E i \in SelectIds : Toggle(i)
    \/ \E i \in SelectIds : DeleteOpen(i)
    \/ DeleteConfirm
    \/ DialogCancel

Spec == Init /\ [][Next]_vars

(***************************************************************************)
(* SpecLocal is the terminal: every key of the user, the remote client and *)
(* one subscriber.                                                         *)
(***************************************************************************)
Deltas == {0 - 1, 1}
LocalIds == 1..MaxTaskId

NextLocal ==
    \/ SseConnect(1, now, now, TRUE)
    \/ GetTasks
    \/ \E p \in DOMAIN pubs : PublishStart(p)
    \/ \E p \in DOMAIN pubs : PublishStep(p)
    \/ \E body \in Payloads : PostTasks(body)
    \/ RefreshTable
    \/ \E i \in LocalIds : Toggle(i)
    \/ \E i \in LocalIds : \E delta \in Deltas : AdjustTaskTime(i, delta)
    \/ \E i \in LocalIds : EditOpen(i)
    \/ \E x \in NameInputs : EditSubmit(x)
    \/ AddOpen
    \/ \E x \in NameInputs : \E f \in TimeInputs : AddSubmit(x, f)
    \/ \E i \in LocalIds : DeleteOpen(i)
    \/ DeleteConfirm
    \/ DialogCancel

SpecLocal == Init /\ [][NextLocal]_vars

(***************************************************************************)
(* SpecLoaded is the terminal once the remote client has posted its three  *)
(* tasks and the table shows them.                                         *)
(***************************************************************************)
LoadedTasks == TaskList(<<TaskA, TaskB, TaskC>>)

InitLoaded ==
    /\ now = StartOfClock
    /\ msClock = MaxTaskId
    /\ alive = TRUE
    /\ current_tasks = LoadedTasks
    /\ sse_clients = <<>>
    /\ last_date_check = None
    /\ chan = [s \in Subs |-> "new"]
    /\ sess = [s \in Subs |-> "new"]
    /\ recv = [s \in Subs |-> <<>>]
    /\ pubs = <<>>
    /\ http = <<>>
    /\ table = RefreshKeys(LoadedTasks)
    /\ pendingRefresh = <<>>
    /\ dialog = NoDialog
    /\ ops = 0
    /\ gateLog = <<>>
    /\ got = NothingGot
    /\ lastInput = NoInput

SpecLoaded == InitLoaded /\ [][NextLocal]_vars

(***************************************************************************)
(* SpecRollover is the calendar: the clock advances, also between the      *)
(* clock reads of one connect, while the remote client posts and the       *)
(* subscribers connect.                                                    *)
(***************************************************************************)
NextRollover ==
    \/ Tick
    \/ \E s \in Subs : \E n2, n3 \in ClockPoints : \E ok \in BOOLEAN :
           SseConnect(s, n2, n3, ok)
    \/ \E p \in DOMAIN pubs : PublishStep(p)
    \/ \E body \in Payloads : PostTasks(body)

SpecRollover == Init /\ [][NextRollover]_vars

(***************************************************************************)
(* SpecPass is update_task_dates_to_today on its own: the function is      *)
(* handed the store, whatever list it holds and whenever the gate was last *)
(* opened, and the clock advances between and inside the calls.            *)
(***************************************************************************)
InitPass ==
    /\ now = StartOfClock
    /\ msClock = MaxTaskId
    /\ alive = TRUE
    /\ current_tasks \in PassInputs
    /\ sse_clients = <<>>
    /\ last_date_check \in LastChecks
    /\ chan = [s \in Subs |-> "new"]
    /\ sess = [s \in Subs |-> "new"]
    /\ recv = [s \in Subs |-> <<>>]
    /\ pubs = <<>>
    /\ http = <<>>
    /\ table = {}
    /\ pendingRefresh = <<>>
    /\ dialog = NoDialog
    /\ ops = 0
    /\ gateLog = <<>>
    /\ got = NothingGot
    /\ lastInput = NoInput

\* self.current_tasks = self.update_task_dates_to_today(self.current_tasks):
\* n2 is the clock read by the gate of line 47, n3 the read of line 50.
ApplyRollover(n2, n3) ==
    /\ alive /\ ops < MaxOps
    /\ n2 \in Later(now) /\ n3 \in Later(n2)
    /\ LET r == UpdateTaskDatesToToday(current_tasks, last_date_check, n2, n3)
           ran == current_tasks.list /\ GateOpen(last_date_check, n2)
       IN  /\ (~current_tasks.list => n2 = now)
           /\ (~ran => n3 = n2)
           /\ now' = n3
           /\ current_tasks' = r.tasks
           /\ last_date_check' = r.last
    /\ gateLog' = gateLog \o (IF current_tasks.list
                              THEN <<GateEntry(last_date_check, n2)>> ELSE <<>>)
    /\ lastInput' = Input("rollover", 0, NoText, <<n2, n3>>, 0)
    /\ ops' = ops + 1
    /\ UNCHANGED <<msClock, alive, sse_clients, chan, sess, recv, pubs, http,
                   table, pendingRefresh, dialog, got>>

NextPass ==
    \/ Tick
    \/ \E n2, n3 \in ClockPoints : ApplyRollover(n2, n3)

SpecPass == InitPass /\ [][NextPass]_vars

(***************************************************************************)
(* SpecDay is the terminal of SpecLoaded over the days: the clock advances *)
(* and update_task_dates_to_today runs between the keys of the user.       *)
(***************************************************************************)
NextDay ==
    \/ NextLocal
    \/ Tick
    \/ \E n2, n3 \in ClockPoints : ApplyRollover(n2, n3)

SpecDay == InitLoaded /\ [][NextDay]_vars

(***************************************************************************)
(* FairSpec is the hub with peers that stop and resume reading.  The event *)
(* loop runs a coroutine whose awaited write has returned, even when the   *)
(* peer stops reading again, and the keep-alive timer of a session fires;  *)
(* the peers and the remote client owe nothing.                            *)
(***************************************************************************)
NextFair ==
    \/ \E s \in Subs : SseConnect(s, now, now, TRUE)
    \/ \E s \in Subs : PeerStall(s)
    \/ \E s \in Subs : PeerResume(s)
    \/ \E s \in Subs : PeerDisconnect(s)
    \/ \E s \in Subs : KeepAliveFail(s)
    \/ \E p \in DOMAIN pubs : PublishStep(p)
    \/ \E body \in Payloads : PostTasks(body)

FairSpec ==
    /\ Init /\ [][NextFair]_vars
    /\ \A p \in 1..MaxOps : SF_vars(p \in DOMAIN pubs /\ PublishStep(p))
    /\ \A s \in Subs : WF_vars(KeepAliveFail(s))

(***************************************************************************)
(* Properties.                                                             *)
(***************************************************************************)
\* How many messages of publish p channel s has been sent.
Delivered(s, p) == Cardinality({ k \in DOMAIN recv[s] : recv[s][k].pub = p })
\* Channel s was in the registry when publish p was triggered.
RegisteredAt(s, p) == pubs[p].lenAt[s] # None
AllDone == \A p \in DOMAIN pubs : pubs[p].pc = "done"
\* A task that parses and whose due day is before the UTC day of clock n.
Stale(t, n) == Parses(t.dueTime) /\ ParseDue(t.dueTime).day < DayOf(n)
\* The life of a channel: not yet connected, in the registry, gone.
Phase(s) ==
    IF sess[s] = "new" THEN "connecting"
    ELSE IF Registered(s) THEN "active"
    ELSE "closed"

\* C1: a POST whose body is not a list of tasks leaves the store as it
\* was, broadcasts nothing and is answered with an error.
C1_NonListPayloadRejected ==
    [][ (Len(http') = Len(http) + 1 /\ ~http'[Len(http')].list)
        => /\ current_tasks' = current_tasks
           /\ recv' = recv
           /\ pubs' = pubs
           /\ http'[Len(http')].status = 500 ]_vars

\* C2: a connect that finds tasks in the store and the gate of the day
\* still open moves every stale task to today, unchecked and with its alarm
\* cleared, before it writes the initial snapshot; a connect that finds the
\* gate closed changes no task.
C2_RolloverOnFirstConnect ==
    [][ \A s \in Subs : (sess[s] = "new" /\ sess'[s] # "new" /\ current_tasks.list) =>
          IF Truthy(current_tasks) /\ GateOpen(last_date_check, now)
          THEN /\ Len(current_tasks'.items) = Len(current_tasks.items)
               /\ \A k \in DOMAIN current_tasks.items :
                      Stale(current_tasks.items[k], now) =>
                          /\ Parses(current_tasks'.items[k].dueTime)
                          /\ ParseDue(current_tasks'.items[k].dueTime).day
                                 \in {DayOf(now), DayOf(now')}
                          /\ ~current_tasks'.items[k].checked
                          /\ ~current_tasks'.items[k].alarmTriggered
               /\ recv'[s] # <<>> => recv'[s][1].data = Serialize(current_tasks')
          ELSE current_tasks' = current_tasks
      ]_vars

\* C3: a toggle made with N channels registered sends each of them exactly
\* one snapshot, and a channel registered after the toggle gets none of it.
C3_ToggleFanOut ==
    \A p \in DOMAIN pubs : pubs[p].op = "toggle" =>
        \A s \in Subs :
            /\ ~RegisteredAt(s, p) => Delivered(s, p) = 0
            /\ (RegisteredAt(s, p) /\ pubs[p].pc = "done" /\ Registered(s))
                   => Delivered(s, p) = 1

\* C4: a publish in which a write failed has removed the channels whose
\* write failed, and every other channel that was registered from its
\* trigger to its end has been sent its message once.
C4_WriteFailureIsolated ==
    \A p \in DOMAIN pubs :
        (pubs[p].pc = "done" /\ pubs[p].disconnected # <<>>) =>
            /\ \A c \in SeqToSet(pubs[p].disconnected) : ~Registered(c)
            /\ \A s \in Subs :
                   (RegisteredAt(s, p) /\ Registered(s)) => Delivered(s, p) = 1

\* C5: a publish that has started its loop finishes, whatever the peers of
\* the channels do.
C5_PublishTerminates ==
    \A p \in 1..MaxOps :
        (p \in DOMAIN pubs /\ pubs[p].pc = "loop")
            ~> (p \in DOMAIN pubs /\ pubs[p].pc = "done")

\* C6: every snapshot a publish sends is the store as it was right after
\* the mutation that triggered the publish.
C6_SnapshotOfTriggeringMutation ==
    \A s \in Subs : \A k \in DOMAIN recv[s] :
        recv[s][k].pub > 0 => recv[s][k].data = Serialize(pubs[recv[s][k].pub].storeAt)

\* C7: the ids of the tasks in the store are pairwise distinct.
C7_IdsPairwiseDistinct ==
    current_tasks.list =>
        \A j, k \in DOMAIN current_tasks.items :
            j # k => current_tasks.items[j].id # current_tasks.items[k].id

\* C8: the first message of a channel is the snapshot written when it
\* subscribed, and the first message it is sent after a delete holds
\* exactly the tasks left by the delete.
C8_NextMessageAfterDelete ==
    \A s \in Subs :
        /\ recv[s] # <<>> => recv[s][1].pub = 0
        /\ \A p \in DOMAIN pubs :
               (pubs[p].op = "delete" /\ RegisteredAt(s, p)
                    /\ Len(recv[s]) > pubs[p].lenAt[s])
               => Ids(recv[s][pubs[p].lenAt[s] + 1].data) = Ids(pubs[p].storeAt)

\* C9: once every publish has finished, the last message of every channel
\* still registered, even of one that no publish passed over, is the store.
C9_LastMessageIsStore ==
    AllDone =>
        \A s \in Subs :
            (Registered(s)
                /\ \A p \in DOMAIN pubs : RegisteredAt(s, p) => Delivered(s, p) = 1)
            => recv[s][Len(recv[s])].data = Serialize(current_tasks)

\* C10: a channel in the registry stays or leaves, a channel that has left
\* the registry never enters it again and is sent nothing more, and no
\* channel is in the registry twice.
C10_ClosedIsTerminal ==
    [][ \A s \in Subs :
          /\ Phase(s) = "closed" => Phase(s)' = "closed" /\ recv'[s] = recv[s]
          /\ Phase(s) = "active" => Phase(s)' \in {"active", "closed"}
          /\ Cardinality({ k \in DOMAIN sse_clients' : sse_clients'[k] = s }) <= 1
      ]_vars

\* A channel removed by a failed publish while its session still sleeps,
\* and a later publish that reached another channel.
C10_Witness ==
    \E s \in Subs : \E q \in DOMAIN pubs : \E p \in DOMAIN pubs : \E r \in Subs :
        /\ q < p /\ pubs[q].pc = "done" /\ pubs[p].pc = "done"
        /\ s \in SeqToSet(pubs[q].disconnected)
        /\ Phase(s) = "closed" /\ sess[s] = "sleep"
        /\ r # s /\ Delivered(r, p) = 1

\* C11: a session that ends on a failed keep-alive write takes its own
\* channel out of the registry, leaves every other channel where it was and
\* leaves the store alone.
C11_HeartbeatFailureRemoves ==
    [][ \A s \in Subs : (sess[s] = "sleep" /\ sess'[s] = "ended") =>
          /\ ~Registered(s)'
          /\ sse_clients' = SelectSeq(sse_clients, LAMBDA r : r # s)
          /\ current_tasks' = current_tasks
      ]_vars

\* A session ended by its keep-alive while its channel was not the newest
\* of the registry: no publish had removed it, and a channel registered
\* after it is still there.
C11_Witness ==
    \E s \in Subs : \E r \in Subs :
        /\ s < r /\ sess[s] = "ended" /\ recv[s] # <<>> /\ Registered(r)
        /\ \A p \in DOMAIN pubs : s \notin SeqToSet(pubs[p].disconnected)

\* The step is a run of update_task_dates_to_today whose gate opened.
PassRan ==
    /\ lastInput'.op = "rollover" /\ ops' = ops + 1
    /\ Len(gateLog') = Len(gateLog) + 1
    /\ gateLog'[Len(gateLog')].ret

\* The instant a dueTime names, in minutes since day 0 00:00 UTC.
Instant(d) == d.day * MinutesPerDay + d.tod - d.off

\* What the pass owes a task whose date is before today.
Rolled(t, today) ==
    [t EXCEPT !.dueTime = DueOff(today, t.dueTime.tod, t.dueTime.us, 0),
              !.checked = FALSE, !.alarmTriggered = FALSE]

\* C12: a pass at time now gives every task whose dueTime parses and is
\* dated before now's UTC day the date of that day with the hour, minute,
\* second and fraction it had, unchecked and with the alarm cleared; a task
\* dated today or later is kept; no date moves backward and no time of day
\* changes.  The date and the time of day are the ones the dueTime is
\* written with.
C12_RolloverMovesStaleDates ==
    [][ PassRan =>
          /\ current_tasks'.list
          /\ Len(current_tasks'.items) = Len(current_tasks.items)
          /\ \A k \in DOMAIN current_tasks.items :
                LET t == current_tasks.items[k]
                    u == current_tasks'.items[k]
                    today == DayOf(now')
                IN  Parses(t.dueTime) =>
                      /\ t.dueTime.day < today => u = Rolled(t, today)
                      /\ t.dueTime.day >= today => u = t
                      /\ Parses(u.dueTime)
                      /\ u.dueTime.day >= t.dueTime.day
                      /\ u.dueTime.tod = t.dueTime.tod
                      /\ u.dueTime.us = t.dueTime.us
                      /\ Instant(u.dueTime) >= Instant(t.dueTime)
      ]_vars

\* After a pass on day 2: a task that was checked, two days stale and
\* written with a Z is on today, unchecked, and next to it a task written
\* for today east of UTC is as it was.
C12_Witness ==
    /\ lastInput.op = "rollover" /\ gateLog # <<>> /\ gateLog[Len(gateLog)].ret
    /\ current_tasks.list /\ DayOf(now) = 2
    /\ \E k, j \in DOMAIN current_tasks.items :
          /\ current_tasks.items[k] = Rolled(TaskA, 2)
          /\ current_tasks.items[j] = TaskEast

\* C13: in a pass a task whose dueTime is absent or does not parse is left
\* as it was, and every stale task of the same list, before it or after it,
\* is on today afterwards.
C13_BadDueTimeSkipped ==
    [][ PassRan =>
          \A k \in DOMAIN current_tasks.items :
              ~Parses(current_tasks.items[k].dueTime) =>
                  /\ k \in DOMAIN current_tasks'.items
                  /\ current_tasks'.items[k] = current_tasks.items[k]
                  /\ \A j \in DOMAIN current_tasks.items \ {k} :
                        Stale(current_tasks.items[j], now') =>
                            /\ j \in DOMAIN current_tasks'.items
                            /\ current_tasks'.items[j] =
                                  Rolled(current_tasks.items[j], DayOf(now'))
      ]_vars

\* After a pass: a rolled task, then the task whose dueTime is no date,
\* then another rolled task.
C13_Witness ==
    /\ lastInput.op = "rollover" /\ gateLog # <<>> /\ gateLog[Len(gateLog)].ret
    /\ current_tasks.list /\ Len(current_tasks.items) = 3
    /\ current_tasks.items[1] = Rolled(TaskNaive, DayOf(now))
    /\ current_tasks.items[2] = TaskBad
    /\ current_tasks.items[3] = Rolled(TaskA, DayOf(now))

\* The last input was a run of update_task_dates_to_today whose gate opened.
PassDone ==
    lastInput.op = "rollover" /\ gateLog # <<>> /\ gateLog[Len(gateLog)].ret

\* C14: a second run of the rollover at the same now on what the first run
\* left changes no task: no date of the output is stale, and the gate,
\* opened on this day, does not open again.  The first conjunct is about a
\* second run that takes place, the second about the function applied to
\* the output of any run.
C14_RolloverIdempotent ==
    [][ /\ (PassDone /\ lastInput'.op = "rollover" /\ ops' = ops + 1
              /\ now' = lastInput.time[2]) => current_tasks' = current_tasks
        /\ PassRan =>
          /\ RollAll(current_tasks'.items, DayOf(now')) = current_tasks'.items
          /\ UpdateTaskDatesToToday(current_tasks', last_date_check',
                                    now', now').tasks = current_tasks'
          /\ DayOf(last_date_check') = DayOf(now') =>
                /\ ~ShouldUpdateDates(last_date_check', now').ret
                /\ ShouldUpdateDates(last_date_check', now').last = last_date_check'
      ]_vars

\* Two runs in a row on the same day: the first moved a task that was two
\* days stale, the second found the gate shut.
C14_Witness ==
    /\ lastInput.op = "rollover" /\ Len(gateLog) = 2
    /\ gateLog[1].ret /\ ~gateLog[2].ret
    /\ gateLog[1].at = gateLog[2].at /\ gateLog[2].at = now
    /\ current_tasks.list
    /\ \E k \in DOMAIN current_tasks.items :
          current_tasks.items[k] = Rolled(TaskA, 2)

\* C15: a call of the gate returns true exactly when the last-run instant
\* is unset or on a UTC day before the day of the call, records the instant
\* of the call when it returns true and leaves the last-run instant alone
\* when it returns false; with a clock that never goes back, no two calls
\* that returned true are on the same UTC day.
C15_GateOncePerDay ==
    /\ \A k \in DOMAIN gateLog :
          LET e == gateLog[k]
          IN  /\ e.ret <=> (e.before = None \/ DayOf(e.before) < DayOf(e.at))
              /\ e.after = (IF e.ret THEN e.at ELSE e.before)
              /\ k > 1 => /\ e.before = gateLog[k - 1].after
                          /\ e.at >= gateLog[k - 1].at
    /\ \A j, k \in DOMAIN gateLog :
          (j < k /\ gateLog[j].ret /\ gateLog[k].ret) =>
              DayOf(gateLog[j].at) < DayOf(gateLog[k].at)
    /\ gateLog # <<>> => last_date_check = gateLog[Len(gateLog)].after
    /\ gateLog = <<>> => last_date_check = None

\* The gate opened on one day, opened again on the next, and stayed shut
\* when it was asked again later that day.
C15_Witness ==
    \E i, j, k \in DOMAIN gateLog :
        /\ i < j /\ j < k
        /\ gateLog[i].ret /\ gateLog[j].ret /\ ~gateLog[k].ret
        /\ DayOf(gateLog[i].at) < DayOf(gateLog[j].at)
        /\ DayOf(gateLog[j].at) = DayOf(gateLog[k].at)
        /\ gateLog[j].at < gateLog[k].at

\* C16: whatever is interleaved with a remote replace, every read of the
\* store (the response of GET /tasks, the initial snapshot of a subscriber,
\* the message a publish serializes) is the whole store as it was before
\* the step of the read or as it is after it, and what a channel is sent is
\* the message of its publish.
C16_ReadsSeeWholeStore ==
    [][ /\ got' # got => got'.data \in {current_tasks, current_tasks'}
        /\ \A s \in Subs :
              Len(recv'[s]) > Len(recv[s]) =>
                  LET m == recv'[s][Len(recv'[s])]
                  IN  IF m.pub = 0
                      THEN m.data \in {current_tasks, current_tasks'}
                      ELSE m.data = pubs'[m.pub].message
        /\ \A p \in DOMAIN pubs' :
              ( /\ p \in DOMAIN pubs => pubs[p].pc = "ready"
                /\ pubs'[p].pc # "ready"
                /\ sse_clients # <<>> ) =>
                  pubs'[p].message \in {current_tasks, current_tasks'}
      ]_vars

\* The subscriber got the three tasks as its initial snapshot; the user
\* toggled one, and a GET returned the store with the toggled task; then
\* the remote client replaced the store by one task, and the publish of
\* the toggle, run after it, serialized that one task.
C16_Witness ==
    /\ Len(recv[1]) >= 2 /\ recv[1][1] = [pub |-> 0, data |-> LoadedTasks]
    /\ lastInput.op = "post" /\ current_tasks = TaskList(<<TaskC>>)
    /\ \E p \in DOMAIN pubs :
          /\ pubs[p].op = "toggle" /\ pubs[p].pc # "ready"
          /\ pubs[p].message = TaskList(<<TaskC>>)
          /\ got.seen /\ got.data = pubs[p].storeAt
          /\ got.data # LoadedTasks

\* C17: a remote replace with a task list L leaves exactly L in the store,
\* a read of the store returns it, and the store stays as it is through
\* every step that is no input and no connect.
C17_ReplaceIsAuthoritative ==
    [][ /\ (lastInput'.op = "post" /\ ops' = ops + 1 /\ lastInput'.body.list) =>
              /\ current_tasks' = lastInput'.body
              /\ Serialize(current_tasks') = lastInput'.body
        /\ got' # got => got'.data = current_tasks
        /\ (ops' = ops /\ sess' = sess) => current_tasks' = current_tasks
      ]_vars

\* The store held three tasks; a replace with the list of one of them was
\* the last input, and a GET after it returned that list.
C17_Witness ==
    /\ lastInput.op = "post" /\ lastInput.body = TaskList(<<TaskC>>)
    /\ \E p \in DOMAIN pubs : pubs[p].storeAt = TaskList(<<TaskA, TaskB, TaskC>>)
    /\ got.seen /\ got.data = TaskList(<<TaskC>>)
    /\ current_tasks = TaskList(<<TaskC>>)

\* C18: a confirmed delete of id i is never an error; it removes the task
\* with id i and leaves the other tasks as they were, in their order; when
\* the store holds no task with id i it leaves the store as it was.
C18_DeleteIdempotent ==
    [][ (lastInput'.op = "delete" /\ ops' = ops + 1) =>
          LET i == lastInput'.id
          IN  /\ alive'
              /\ i \notin Ids(current_tasks) => current_tasks' = current_tasks
              /\ i \in Ids(current_tasks) =>
                    /\ current_tasks'.list
                    /\ current_tasks'.items =
                          SelectSeq(current_tasks.items, LAMBDA t : t.id # i)
      ]_vars

\* C20: a toggle of the row of id i flips checked of the task with id i;
\* a task now checked has alarmTriggered false, a task now unchecked keeps
\* its alarmTriggered; its name, dueTime, isPreset and id and every other
\* task are as they were; a second toggle gives checked its first value.
C20_ToggleFlipsChecked ==
    [][ (lastInput'.op = "toggle" /\ ops' = ops + 1 /\ current_tasks.list
           /\ lastInput'.id \in Ids(current_tasks)) =>
          /\ current_tasks'.list
          /\ Len(current_tasks'.items) = Len(current_tasks.items)
          /\ \E k \in DOMAIN current_tasks.items :
                LET t == current_tasks.items[k]
                    u == current_tasks'.items[k]
                IN  /\ t.id = lastInput'.id
                    /\ u.checked = ~t.checked
                    /\ u.checked => ~u.alarmTriggered
                    /\ ~u.checked => u.alarmTriggered = t.alarmTriggered
                    /\ u.id = t.id /\ u.name = t.name
                    /\ u.dueTime = t.dueTime /\ u.isPreset = t.isPreset
                    /\ ToggleTask(u).checked = t.checked
                    /\ \A j \in DOMAIN current_tasks.items \ {k} :
                          current_tasks'.items[j] = current_tasks.items[j]
      ]_vars

\* Task 1, checked with its alarm set, toggled twice: it is checked again,
\* its alarm was kept by the first toggle and cleared by the second, and
\* the two other tasks are as they were.
C20_Witness ==
    /\ lastInput.op = "toggle" /\ lastInput.id = 1 /\ ops = 2 /\ alive
    /\ current_tasks =
          TaskList(<<[TaskA EXCEPT !.alarmTriggered = FALSE], TaskB, TaskC>>)
    /\ \E p \in DOMAIN pubs :
          /\ pubs[p].op = "toggle"
          /\ pubs[p].storeAt =
                TaskList(<<[TaskA EXCEPT !.checked = FALSE], TaskB, TaskC>>)

\* A time of the 24-hour clock: an hour and a minute.
IsHHMM(f) == Len(f) = 2 /\ f[1] \in 0..23 /\ f[2] \in 0..59

\* The input of the step fails validation: a rename to a name that is
\* empty once trimmed, an add with a time that is no HH:MM, a shift of a
\* task without dueTime.
FailsValidation ==
    /\ ops' = ops + 1
    /\ \/ lastInput'.op = "rename" /\ Strip(lastInput'.text).s = ""
       \/ lastInput'.op = "add" /\ ~IsHHMM(lastInput'.time)
       \/ /\ lastInput'.op = "shift" /\ current_tasks.list
          /\ \E k \in DOMAIN current_tasks.items :
                /\ current_tasks.items[k].id = lastInput'.id
                /\ \A j \in 1..(k - 1) : current_tasks.items[j].id # lastInput'.id
                /\ current_tasks.items[k].dueTime = NoDue

\* C19: a rename to an empty name, an add with an invalid time and a shift
\* of a task without dueTime change no task, add none, start no publish
\* and send nothing to a subscriber.
C19_FailedValidationNoEffect ==
    [][ FailsValidation =>
          /\ current_tasks' = current_tasks
          /\ pubs' = pubs /\ recv' = recv
          /\ table' = table /\ alive' = alive
      ]_vars

\* Two inputs were handled, the last an add at 25:00, and the store, the
\* table and the list of publishes are what they were at the start.
C19_Witness ==
    /\ ops = 2 /\ lastInput.op = "add" /\ lastInput.time = <<25, 0>>
    /\ current_tasks = LoadedTasks /\ table = RefreshKeys(LoadedTasks)
    /\ pubs = <<>> /\ dialog = NoDialog /\ alive

\* The step is a shift of the row of a task that has a dueTime; k is the
\* task get_selected_task returns.
ShiftsAt(k) ==
    /\ lastInput'.op = "shift" /\ ops' = ops + 1 /\ current_tasks.list
    /\ k \in DOMAIN current_tasks.items
    /\ current_tasks.items[k].id = lastInput'.id
    /\ \A j \in 1..(k - 1) : current_tasks.items[j].id # lastInput'.id
    /\ Parses(current_tasks.items[k].dueTime)

\* C21: a shift by d of a task that has a dueTime leaves the dueTime d
\* minutes later, carried across the hour and the day, in the same offset
\* and with the same seconds, and isPreset false; checked, alarmTriggered,
\* name and id of the task and every other task are as they were; two
\* shifts add up, so that +1 and -1 give the instant back.  A dueTime is
\* compared by the date, time and offset it names.
C21_ShiftAddsMinutes ==
    [][ \A k \in DOMAIN current_tasks.items : ShiftsAt(k) =>
          LET t == current_tasks.items[k]
              u == current_tasks'.items[k]
              d == lastInput'.delta
          IN  /\ current_tasks'.list
              /\ Len(current_tasks'.items) = Len(current_tasks.items)
              /\ Parses(u.dueTime)
              /\ Instant(ParseDue(u.dueTime)) = Instant(ParseDue(t.dueTime)) + d
              /\ ParseDue(u.dueTime).off = ParseDue(t.dueTime).off
              /\ ParseDue(u.dueTime).us = ParseDue(t.dueTime).us
              /\ ParseDue(u.dueTime).tod \in 0..(MinutesPerDay - 1)
              /\ u.isPreset = FALSE
              /\ u.checked = t.checked /\ u.alarmTriggered = t.alarmTriggered
              /\ u.name = t.name /\ u.id = t.id
              /\ \A j \in DOMAIN current_tasks.items \ {k} :
                    current_tasks'.items[j] = current_tasks.items[j]
              /\ \A e \in Deltas :
                    /\ Instant(ParseDue(ShiftTask(u, e).dueTime))
                          = Instant(ParseDue(t.dueTime)) + d + e
                    /\ e = 0 - d =>
                          ParseDue(ShiftTask(u, e).dueTime) = ParseDue(t.dueTime)
      ]_vars

\* The task due on day 1 at 00:00 was shifted by -1 to 23:59 of day 0, as
\* the publish of that shift shows, and then by +1 back to day 1 at 00:00.
C21_Witness ==
    /\ lastInput.op = "shift" /\ lastInput.id = MaxTaskId /\ lastInput.delta = 1
    /\ ops = 2 /\ current_tasks.list /\ Len(current_tasks.items) = 3
    /\ current_tasks.items[3] = [TaskC EXCEPT !.isPreset = FALSE]
    /\ current_tasks.items[1] = TaskA /\ current_tasks.items[2] = TaskB
    /\ \E p \in DOMAIN pubs :
          /\ pubs[p].op = "shift"
          /\ pubs[p].storeAt.items[3].dueTime = DueOff(0, MinutesPerDay - 1, 30, 0)

\* The step is a remote replace.
IsReplace == lastInput'.op = "post" /\ ops' = ops + 1

\* The step is a confirmed delete.
IsDelete == lastInput'.op = "delete" /\ ops' = ops + 1

\* The step runs the rollover: on a connect or on its own.
IsRollover ==
    \/ lastInput'.op = "rollover" /\ ops' = ops + 1
    \/ sess' # sess

\* C22: no step but a remote replace, which brings the tasks of the
\* external client, takes the alarmTriggered of a task from false to true:
\* a delete keeps the tasks it keeps as they were, a new task has it false,
\* and a task that loses it was stale in a rollover or was checked by a
\* toggle.
C22_AlarmNeverSet ==
    [][ (~IsReplace /\ current_tasks.list) =>
          /\ current_tasks'.list
          /\ IsDelete =>
                \A j \in DOMAIN current_tasks'.items :
                    \E k \in DOMAIN current_tasks.items :
                        current_tasks'.items[j] = current_tasks.items[k]
          /\ ~IsDelete =>
                /\ Len(current_tasks'.items) >= Len(current_tasks.items)
                /\ \A j \in DOMAIN current_tasks'.items :
                      j > Len(current_tasks.items) =>
                          ~current_tasks'.items[j].alarmTriggered
                /\ \A k \in DOMAIN current_tasks.items :
                      LET t == current_tasks.items[k]
                          u == current_tasks'.items[k]
                      IN  /\ u.alarmTriggered => t.alarmTriggered
                          /\ (t.alarmTriggered /\ ~u.alarmTriggered) =>
                                \/ IsRollover /\ Stale(t, now')
                                \/ /\ lastInput'.op = "toggle" /\ ops' = ops + 1
                                   /\ lastInput'.id = t.id
                                   /\ ~t.checked /\ u.checked
      ]_vars

\* A rollover cleared the alarm of the stale first task and a toggle that
\* checked the second task cleared its alarm; the third never had one.
C22_Witness ==
    /\ ops = 2 /\ current_tasks.list /\ Len(current_tasks.items) = 3
    /\ current_tasks.items[1] = Rolled(TaskA, DayOf(now))
    /\ current_tasks.items[2] =
          [TaskB EXCEPT !.checked = TRUE, !.alarmTriggered = FALSE]
    /\ current_tasks.items[3] = TaskC

\* C23: a publish that is over has sent its message to every channel that
\* was in the registry from its trigger to its end, whatever was appended
\* to or removed from the registry while it was suspended in a write.
C23_NoRegisteredChannelSkipped ==
    \A p \in DOMAIN pubs : \A s \in Subs :
        (pubs[p].pc = "done" /\ RegisteredAt(s, p) /\ Registered(s)) =>
            Delivered(s, p) >= 1

\* C24: a rename confirmed with a name that is not empty, while the store
\* holds a task with the id of the row the dialog was opened on, gives that
\* task of the store the trimmed name and isPreset false, and the publish
\* the rename makes carries the store with that name; a remote replace
\* that arrived while the dialog was open makes no difference.
C24_RenameHitsCurrentStore ==
    [][ ( /\ lastInput'.op = "rename" /\ ops' = ops + 1
          /\ Strip(lastInput'.text).s # ""
          /\ current_tasks.list
          /\ lastInput'.id \in Ids(current_tasks) ) =>
          /\ current_tasks'.list
          /\ \E k \in DOMAIN current_tasks'.items :
                /\ current_tasks'.items[k].id = lastInput'.id
                /\ current_tasks'.items[k].name = Strip(lastInput'.text)
                /\ current_tasks'.items[k].isPreset = FALSE
          /\ Len(pubs') > Len(pubs) =>
                pubs'[Len(pubs')].storeAt = current_tasks'
      ]_vars

\* How many times channel s is in the registry.
Occurrences(s) ==
    Cardinality({ k \in DOMAIN sse_clients : sse_clients[k] = s })

\* A publish that is over found the write to channel s failing and removed
\* the channel.
RemovedByPublish(s) ==
    \E p \in DOMAIN pubs :
        pubs[p].pc = "done" /\ s \in SeqToSet(pubs[p].disconnected)

\* Removing a channel the registry does not hold changes nothing, in the
\* finally clause of a session and in the cleanup of a publish.
RemovalOfAbsentIsNoOp ==
    \A s \in Subs : ~Registered(s) =>
        /\ Unsubscribe(sse_clients, s) = sse_clients
        /\ RemoveDisconnected(sse_clients, <<s>>) = sse_clients

\* C25 as stated: a session in its keep-alive loop has its channel in the
\* registry exactly once, a session that has ended has it absent, no
\* channel is in the registry twice, and removing an absent channel is a
\* no-op.
C25_SessionIffRegistered ==
    /\ \A s \in Subs :
          /\ sess[s] = "sleep" => Occurrences(s) = 1
          /\ sess[s] = "ended" => Occurrences(s) = 0
          /\ Occurrences(s) <= 1
    /\ RemovalOfAbsentIsNoOp

\* C25, amended: a session in its keep-alive loop has its channel in the
\* registry exactly once unless a publish has removed the channel after a
\* failed write to it, the connection being lost; a session that has ended
\* or not begun has it absent; no channel is in the registry twice, and
\* removing an absent channel is a no-op.
C25_RegistryMatchesSessions ==
    /\ \A s \in Subs :
          /\ sess[s] = "sleep" =>
                \/ Occurrences(s) = 1
                \/ /\ Occurrences(s) = 0
                   /\ chan[s] = "closed"
                   /\ RemovedByPublish(s)
          /\ sess[s] \in {"ended", "new"} => Occurrences(s) = 0
          /\ Occurrences(s) <= 1
    /\ RemovalOfAbsentIsNoOp

\* One session has ended and its channel is gone; the other is still in
\* its keep-alive loop, its connection lost, and a publish has taken its
\* channel out of the registry.
C25_Witness ==
    \E s, r \in Subs :
        /\ s # r
        /\ sess[s] = "ended" /\ recv[s] # <<>> /\ ~Registered(s)
        /\ sess[r] = "sleep" /\ ~Registered(r) /\ RemovedByPublish(r)

=============================================================================
